---- MODULE Spec2Model ----
(***************************************************************************)
(* Model of the bounce service client, src/global/bounce.c:                *)
(* vbounce_append, bounce_flush and vbounce_one.                           *)
(*                                                                         *)
(* A caller invokes one of the three functions.  Every request to a peer   *)
(* service (verify, trace, bounce, defer) blocks the caller until the      *)
(* service answers, so each function is cut into steps at its service      *)
(* calls.  The k-th request of a call is answered with resp[p][k]; the     *)
(* answers are chosen freely when the call starts.  Everything a call      *)
(* does that is visible outside (requests, answers, log lines, warnings)   *)
(* is recorded, in order, in trace[p].                                     *)
(***************************************************************************)
EXTENDS Integers, Sequences, FiniteSets, TLC

(* ------------------------------ bounds --------------------------------- *)

\* Service answers range over -1 .. MaxStatus; 0 is success.
MaxStatus == 1

\* Number of answers prepared for one call.
MaxReqs == 3

Status == -1 .. MaxStatus

(* ------------------------------ inputs --------------------------------- *)

\* The callers (delivery agents) of the model.
Procs == {"c0", "c1", "c2"}

DEL_REQ_FLAG_VERIFY == "VERIFY"
DEL_REQ_FLAG_EXPAND == "EXPAND"
DEL_REQ_FLAG_RECORD == "RECORD"
BOUNCE_FLAG_CLEAN == "CLEAN"

AllFlags ==
  {DEL_REQ_FLAG_VERIFY, DEL_REQ_FLAG_EXPAND, DEL_REQ_FLAG_RECORD, BOUNCE_FLAG_CLEAN}

FlagSets == SUBSET AllFlags

\* A DSN string is a sequence of characters.
Dsn511 == <<"5", ".", "1", ".", "1">>
Dsn420 == <<"4", ".", "2", ".", "0">>
Dsn999 == <<"9", ".", "9", ".", "9">>
Dsn5x1 == <<"5", ".", "1">>
DsnEmpty == <<>>

DsnInputs == {Dsn511, Dsn420, Dsn999, Dsn5x1, DsnEmpty}

Recipients == {"alice", "bob"}

Oracles == [1 .. MaxReqs -> Status]

(* --------------------------- DSN handling ------------------------------ *)

Digits == {"0", "1", "2", "3", "4", "5", "6", "7", "8", "9"}

\* First character of a C string; the terminator for the empty string.
FirstChar(d) == IF Len(d) >= 1 THEN d[1] ELSE "NUL"

\* dsn_valid(): class digit, dot, 1-3 digits, dot, 1-3 digits.
DsnValid(d) ==
  \E j \in 4 .. Len(d) - 1 :
    /\ d[1] \in Digits
    /\ d[2] = "."
    /\ d[j] = "."
    /\ j - 3 \in 1 .. 3
    /\ Len(d) - j \in 1 .. 3
    /\ \A k \in (3 .. (j - 1)) \cup ((j + 1) .. Len(d)) : d[k] \in Digits

\* The sanity check at the head of vbounce_append and vbounce_one.
DsnRejected(d) == FirstChar(d) # "5" \/ ~DsnValid(d)

\* Variant: the sanity check looks at the class digit only.
SanitizeClassOnly(d) ==
  IF FirstChar(d) # "5" THEN <<"5", ".", "0", ".", "0">> ELSE d

SanitizeDsn(d) == IF DsnRejected(d) THEN <<"5", ".", "0", ".", "0">> ELSE d

\* Variant: the class digit is left as it is.
SetClassKept(d) == d

\* my_dsn[0] = '4'
SetClass4(d) == [d EXCEPT ![1] = "4"]

(* ------------------------------- state --------------------------------- *)

VARIABLES
  var_soft_bounce,  \* the soft_bounce configuration parameter
  pc,               \* where each caller is
  op,               \* the function the caller invoked: "append", "one", "flush"
  flags,            \* argument flags
  recipient,        \* argument recipient
  dsn,              \* argument dsn (re-assigned by the sanity check)
  my_dsn,           \* local copy my_dsn
  action,           \* local action
  log_status,       \* local log_status
  status,           \* the value returned
  resp,             \* the answers the services will give to this call
  trace             \* what the call has done so far

vars ==
  <<var_soft_bounce, pc, op, flags, recipient, dsn, my_dsn, action, log_status,
    status, resp, trace>>

args == <<op, flags, recipient, resp>>
locals == <<my_dsn, action, log_status>>

(* ------------------------------ events --------------------------------- *)

\* A request to a peer service.  call is the function used, service the
\* destination given to mail_command_client ("" when the function called
\* chooses the destination itself), text the action or tag attribute.
Req(call, service, cmd, rcpt, d, text) ==
  [kind |-> "req", call |-> call, service |-> service, cmd |-> cmd,
   recipient |-> rcpt, dsn |-> d, text |-> text, st |-> 0]

\* The answer to the latest request.
Resp(st) ==
  [kind |-> "resp", call |-> "", service |-> "", cmd |-> "",
   recipient |-> "", dsn |-> <<>>, text |-> "", st |-> st]

\* log_adhoc()
Log(rcpt, d, text) ==
  [kind |-> "log", call |-> "log_adhoc", service |-> "", cmd |-> "",
   recipient |-> rcpt, dsn |-> d, text |-> text, st |-> 0]

\* msg_warn() and msg_info(); d is the dsn code the message quotes.
Msg(call, text, d) ==
  [kind |-> "msg", call |-> call, service |-> "", cmd |-> "",
   recipient |-> "", dsn |-> d, text |-> text, st |-> 0]

OfKind(tr, k) == SelectSeq(tr, LAMBDA e : e.kind = k)

Reqs(tr) == OfKind(tr, "req")
Resps(tr) == OfKind(tr, "resp")
Logs(tr) == OfKind(tr, "log")

\* The answer the service gives to the request just issued by p.
Answer(p) == resp[p][Len(Reqs(trace[p]))]

(* ----------------------------- decisions ------------------------------- *)

\* Variant: the expansion test comes before the verification test.
AppendRouteExpandFirst(f, soft) ==
  IF DEL_REQ_FLAG_EXPAND \in f THEN "expand"
  ELSE IF DEL_REQ_FLAG_VERIFY \in f THEN "verify"
  ELSE IF soft /\ BOUNCE_FLAG_CLEAN \in f THEN "skip"
  ELSE "normal"

\* Variant: the soft-bounce short cut comes before the expansion test.
AppendRouteSkipFirst(f, soft) ==
  IF DEL_REQ_FLAG_VERIFY \in f THEN "verify"
  ELSE IF soft /\ BOUNCE_FLAG_CLEAN \in f THEN "skip"
  ELSE IF DEL_REQ_FLAG_EXPAND \in f THEN "expand"
  ELSE "normal"

\* Variant: no soft-bounce short cut.
AppendRouteNoSkip(f, soft) ==
  IF DEL_REQ_FLAG_VERIFY \in f THEN "verify"
  ELSE IF DEL_REQ_FLAG_EXPAND \in f THEN "expand"
  ELSE "normal"

\* vbounce_append: which branch the flags select.
AppendRoute(f, soft) ==
  IF DEL_REQ_FLAG_VERIFY \in f THEN "verify"
  ELSE IF DEL_REQ_FLAG_EXPAND \in f THEN "expand"
  ELSE IF soft /\ BOUNCE_FLAG_CLEAN \in f THEN "skip"
  ELSE "normal"

\* Variant: vbounce_one sends the notice also under soft_bounce.
OneRouteNoAppend(f, soft) ==
  IF DEL_REQ_FLAG_VERIFY \in f THEN "verify"
  ELSE IF DEL_REQ_FLAG_EXPAND \in f THEN "expand"
  ELSE "normal"

\* vbounce_one: which branch the flags select.
OneRoute(f, soft) ==
  IF DEL_REQ_FLAG_VERIFY \in f THEN "verify"
  ELSE IF DEL_REQ_FLAG_EXPAND \in f THEN "expand"
  ELSE IF soft THEN "append"
  ELSE "normal"

AppendAction(soft) == IF soft THEN "delayed" ELSE "failed"

AppendLogStatus(soft) == IF soft THEN "SOFTBOUNCE" ELSE "bounced"


\* Variant: the record always goes to the defer service.
AppendServiceDefer(soft) == "defer"

\* Variant: the record always goes to the bounce service.
AppendServiceBounce(soft) == "bounce"

\* The service vbounce_append sends its record to.
AppendService(soft) == IF soft THEN "defer" ELSE "bounce"


\* Variant: the working copy keeps the class digit under soft_bounce.
WorkDsnKept(d, soft) == d

\* my_dsn = mystrdup(dsn); if (var_soft_bounce) my_dsn[0] = '4';
WorkDsn(d, soft) == IF soft THEN SetClass4(d) ELSE d

\* Variant: success is never reported.
AppendSuccessNever(soft) == -1

\* Variant: success is reported also under soft_bounce.
AppendSuccessAlways(soft) == 0

\* status = (var_soft_bounce ? -1 : 0)
AppendSuccessStatus(soft) == IF soft THEN -1 ELSE 0

\* Variant: the fallback is used also when BOUNCE_FLAG_CLEAN is set.
AppendAfterPrimaryDirty(r, f) ==
  IF r = 0
  THEN IF DEL_REQ_FLAG_RECORD \notin f THEN "success" ELSE "trace"
  ELSE "defer"

\* Variant: the trace mirror is requested whatever the primary request
\* answered.
AppendAfterPrimaryMirrorAnyway(r, f) ==
  IF DEL_REQ_FLAG_RECORD \in f THEN "trace"
  ELSE IF r = 0 THEN "success"
  ELSE IF BOUNCE_FLAG_CLEAN \notin f THEN "defer" ELSE "fail"

\* vbounce_append: what follows the answer r to the primary request.
AppendAfterPrimary(r, f) ==
  IF r = 0
  THEN IF DEL_REQ_FLAG_RECORD \notin f THEN "success" ELSE "trace"
  ELSE IF BOUNCE_FLAG_CLEAN \notin f THEN "defer" ELSE "fail"

\* Variant: the fallback is used also when BOUNCE_FLAG_CLEAN is set.
AppendAfterTraceDirty(r, f) == IF r = 0 THEN "success" ELSE "defer"


\* Variant: the answer of trace_append() is not looked at.
AppendAfterTraceIgnored(r, f) == "success"

\* vbounce_append: what follows the answer r of trace_append().
AppendAfterTrace(r, f) ==
  IF r = 0 THEN "success"
  ELSE IF BOUNCE_FLAG_CLEAN \notin f THEN "defer" ELSE "fail"

\* vbounce_one: what follows the answer r to the primary request.
OneAfterPrimary(r, f) ==
  IF r = 0
  THEN IF DEL_REQ_FLAG_RECORD \notin f THEN "success" ELSE "trace"
  ELSE IF BOUNCE_FLAG_CLEAN \notin f THEN "defer" ELSE "fail"

\* vbounce_one: what follows the answer r of trace_append().
OneAfterTrace(r, f) ==
  IF r = 0 THEN "success"
  ELSE IF BOUNCE_FLAG_CLEAN \notin f THEN "defer" ELSE "fail"

\* Variant: bounce_flush sends its request also under soft_bounce.
FlushRouteAlways(soft) == "send"

\* bounce_flush: if (var_soft_bounce) return (-1);
FlushRoute(soft) == IF soft THEN "skip" ELSE "send"

\* Variant: the answer to the flush request is not looked at.
FlushStatusLost(r) == -1

\* bounce_flush: the value returned for the answer r.
FlushStatus(r) == IF r = 0 THEN 0 ELSE -1

\* bounce_flush: the message logged for the answer r.
FlushMsgs(r, f) ==
  IF r # 0 /\ BOUNCE_FLAG_CLEAN \notin f
  THEN <<Msg("msg_info", "status=deferred (bounce failed)", <<>>)>>
  ELSE <<>>

\* The warning of the sanity check.
SanityMsgs(who, d) ==
  IF DsnRejected(d) THEN <<Msg("msg_warn", who, d)>> ELSE <<>>

(* ------------------------------- calls --------------------------------- *)


\* Variant: the variables of a call are static storage, shared by all calls.
SetShared(f, p, v) == [q \in DOMAIN f |-> v]

Set(f, p, v) == [f EXCEPT ![p] = v]

Idle ==
  [pc |-> "idle", op |-> "none", flags |-> {}, recipient |-> "", dsn |-> <<>>,
   my_dsn |-> <<>>, action |-> "", log_status |-> "", status |-> 0,
   resp |-> [k \in 1 .. MaxReqs |-> 0], trace |-> <<>>]

\* A caller invokes fn with the given arguments; r are the answers the
\* services will give.
Enter(p, fn, f, rcpt, d, r) ==
  /\ pc' = Set(pc, p, fn)
  /\ op' = Set(op, p, fn)
  /\ flags' = Set(flags, p, f)
  /\ recipient' = Set(recipient, p, rcpt)
  /\ dsn' = Set(dsn, p, d)
  /\ resp' = Set(resp, p, r)
  /\ trace' = Set(trace, p, <<>>)
  /\ UNCHANGED <<var_soft_bounce, locals, status>>

CallAppend(p) ==
  /\ pc[p] = "idle"
  /\ \E f \in FlagSets, rcpt \in Recipients, d \in DsnInputs, r \in Oracles :
       Enter(p, "append", f, rcpt, d, r)

CallOne(p) ==
  /\ pc[p] = "idle"
  /\ \E f \in FlagSets, rcpt \in Recipients, d \in DsnInputs, r \in Oracles :
       Enter(p, "one", f, rcpt, d, r)

CallFlush(p) ==
  /\ pc[p] = "idle"
  /\ \E f \in FlagSets, r \in Oracles : Enter(p, "flush", f, "", <<>>, r)

\* The caller takes the returned status; the call is over.
Return(p) ==
  /\ pc[p] = "done"
  /\ pc' = Set(pc, p, Idle.pc)
  /\ op' = Set(op, p, Idle.op)
  /\ flags' = Set(flags, p, Idle.flags)
  /\ recipient' = Set(recipient, p, Idle.recipient)
  /\ dsn' = Set(dsn, p, Idle.dsn)
  /\ my_dsn' = Set(my_dsn, p, Idle.my_dsn)
  /\ action' = Set(action, p, Idle.action)
  /\ log_status' = Set(log_status, p, Idle.log_status)
  /\ status' = Set(status, p, Idle.status)
  /\ resp' = Set(resp, p, Idle.resp)
  /\ trace' = Set(trace, p, Idle.trace)
  /\ UNCHANGED var_soft_bounce

(* --------------------------- vbounce_append ---------------------------- *)

\* Variant: the function does not return to its caller.
FinishHang(p, tr, st) ==
  /\ trace' = Set(trace, p, tr)
  /\ status' = Set(status, p, st)
  /\ pc' = Set(pc, p, "hung")

\* return (status) with the trace tr
Finish(p, tr, st) ==
  /\ trace' = Set(trace, p, tr)
  /\ status' = Set(status, p, st)
  /\ pc' = Set(pc, p, "done")

\* Issue the request e and wait for its answer at pc value w.
Ask(p, tr, e, w) ==
  /\ trace' = Set(trace, p, Append(tr, e))
  /\ pc' = Set(pc, p, w)
  /\ UNCHANGED status

\* Sanity check, the choice of the branch, and the first request.
VbounceAppend(p) ==
  /\ pc[p] = "append"
  /\ LET d == SanitizeDsn(dsn[p])
         tr == trace[p] \o SanityMsgs("bounce_append: ignoring dsn code", dsn[p])
         route == AppendRoute(flags[p], var_soft_bounce)
         md == WorkDsn(d, var_soft_bounce)
     IN /\ dsn' = Set(dsn, p, d)
        /\ CASE route = "verify" ->
                  /\ Ask(p, tr, Req("vverify_append", "", "", recipient[p], d,
                                    "undeliverable"), "append_verify")
                  /\ UNCHANGED locals
             [] route = "expand" ->
                  /\ Ask(p, tr, Req("vtrace_append", "", "", recipient[p], d,
                                    "undeliverable"), "append_expand")
                  /\ UNCHANGED locals
             [] route = "skip" ->
                  /\ Finish(p, tr, -1)
                  /\ UNCHANGED locals
             [] route = "normal" ->
                  /\ my_dsn' = Set(my_dsn, p, md)
                  /\ action' = Set(action, p, AppendAction(var_soft_bounce))
                  /\ log_status' =
                       Set(log_status, p, AppendLogStatus(var_soft_bounce))
                  /\ Ask(p, tr,
                         Req("mail_command_client",
                             AppendService(var_soft_bounce), "BOUNCE_CMD_APPEND",
                             recipient[p], md, AppendAction(var_soft_bounce)),
                         "append_primary")
  /\ UNCHANGED <<var_soft_bounce, args>>

\* status = vverify_append(...); return (status);
AppendVerifyReply(p) ==
  /\ pc[p] = "append_verify"
  /\ Finish(p, Append(trace[p], Resp(Answer(p))), Answer(p))
  /\ UNCHANGED <<var_soft_bounce, args, dsn, locals>>

\* status = vtrace_append(...); return (status);
AppendExpandReply(p) ==
  /\ pc[p] = "append_expand"
  /\ Finish(p, Append(trace[p], Resp(Answer(p))), Answer(p))
  /\ UNCHANGED <<var_soft_bounce, args, dsn, locals>>

\* log_adhoc(...); status = (var_soft_bounce ? -1 : 0);
AppendSucceed(p, tr) ==
  /\ Finish(p, Append(tr, Log(recipient[p], my_dsn[p], log_status[p])),
            AppendSuccessStatus(var_soft_bounce))
  /\ UNCHANGED locals

\* my_dsn[0] = '4'; status = defer_append(...);
AppendFallback(p, tr) ==
  /\ my_dsn' = Set(my_dsn, p, SetClass4(my_dsn[p]))
  /\ Ask(p, tr, Req("defer_append", "", "", recipient[p], SetClass4(my_dsn[p]), ""),
         "append_defer")
  /\ UNCHANGED <<action, log_status>>

\* The answer to the primary request, and what the condition does next.
AppendPrimaryReply(p) ==
  /\ pc[p] = "append_primary"
  /\ LET r == Answer(p)
         tr == Append(trace[p], Resp(r))
         next == AppendAfterPrimary(r, flags[p])
     IN CASE next = "success" -> AppendSucceed(p, tr)
          [] next = "trace" ->
               /\ Ask(p, tr, Req("trace_append", "", "", recipient[p], my_dsn[p],
                                 action[p]), "append_trace")
               /\ UNCHANGED locals
          [] next = "defer" -> AppendFallback(p, tr)
          [] next = "fail" -> Finish(p, tr, -1) /\ UNCHANGED locals
  /\ UNCHANGED <<var_soft_bounce, args, dsn>>

\* The answer of trace_append(), and what the condition does next.
AppendTraceReply(p) ==
  /\ pc[p] = "append_trace"
  /\ LET r == Answer(p)
         tr == Append(trace[p], Resp(r))
         next == AppendAfterTrace(r, flags[p])
     IN CASE next = "success" -> AppendSucceed(p, tr)
          [] next = "defer" -> AppendFallback(p, tr)
          [] next = "fail" -> Finish(p, tr, -1) /\ UNCHANGED locals
  /\ UNCHANGED <<var_soft_bounce, args, dsn>>

\* status = defer_append(...); return (status);
AppendDeferReply(p) ==
  /\ pc[p] = "append_defer"
  /\ Finish(p, Append(trace[p], Resp(Answer(p))), Answer(p))
  /\ UNCHANGED <<var_soft_bounce, args, dsn, locals>>

(* ----------------------------- vbounce_one ----------------------------- *)

\* Sanity check, the choice of the branch, and the first request or the
\* call of vbounce_append.
VbounceOne(p) ==
  /\ pc[p] = "one"
  /\ LET d == SanitizeDsn(dsn[p])
         tr == trace[p] \o SanityMsgs("bounce_one: ignoring dsn code", dsn[p])
         route == OneRoute(flags[p], var_soft_bounce)
         md == WorkDsn(d, var_soft_bounce)
     IN /\ dsn' = Set(dsn, p, d)
        /\ CASE route = "verify" ->
                  /\ Ask(p, tr, Req("vverify_append", "", "", recipient[p], d,
                                    "undeliverable"), "one_verify")
                  /\ UNCHANGED locals
             [] route = "expand" ->
                  /\ Ask(p, tr, Req("vtrace_append", "", "", recipient[p], d,
                                    "undeliverable"), "one_expand")
                  /\ UNCHANGED locals
             [] route = "append" ->
                  \* return (vbounce_append(flags, ..., dsn, ...));
                  /\ trace' = Set(trace, p, tr)
                  /\ pc' = Set(pc, p, "append")
                  /\ UNCHANGED <<locals, status>>
             [] route = "normal" ->
                  /\ my_dsn' = Set(my_dsn, p, md)
                  /\ Ask(p, tr,
                         Req("mail_command_client", "bounce", "BOUNCE_CMD_ONE",
                             recipient[p], md, "failed"),
                         "one_primary")
                  /\ UNCHANGED <<action, log_status>>
  /\ UNCHANGED <<var_soft_bounce, args>>

\* status = vverify_append(...); return (status);
OneVerifyReply(p) ==
  /\ pc[p] = "one_verify"
  /\ Finish(p, Append(trace[p], Resp(Answer(p))), Answer(p))
  /\ UNCHANGED <<var_soft_bounce, args, dsn, locals>>

\* status = vtrace_append(...); return (status);
OneExpandReply(p) ==
  /\ pc[p] = "one_expand"
  /\ Finish(p, Append(trace[p], Resp(Answer(p))), Answer(p))
  /\ UNCHANGED <<var_soft_bounce, args, dsn, locals>>

\* log_adhoc(..., "bounced", ...); status = 0;
OneSucceed(p, tr) ==
  /\ Finish(p, Append(tr, Log(recipient[p], my_dsn[p], "bounced")), 0)
  /\ UNCHANGED locals

\* my_dsn[0] = '4'; status = defer_append(...);
OneFallback(p, tr) ==
  /\ my_dsn' = Set(my_dsn, p, SetClass4(my_dsn[p]))
  /\ Ask(p, tr, Req("defer_append", "", "", recipient[p], SetClass4(my_dsn[p]), ""),
         "one_defer")
  /\ UNCHANGED <<action, log_status>>

\* The answer to the primary request, and what the condition does next.
OnePrimaryReply(p) ==
  /\ pc[p] = "one_primary"
  /\ LET r == Answer(p)
         tr == Append(trace[p], Resp(r))
         next == OneAfterPrimary(r, flags[p])
     IN CASE next = "success" -> OneSucceed(p, tr)
          [] next = "trace" ->
               /\ Ask(p, tr, Req("trace_append", "", "", recipient[p], my_dsn[p],
                                 "failed"), "one_trace")
               /\ UNCHANGED locals
          [] next = "defer" -> OneFallback(p, tr)
          [] next = "fail" -> Finish(p, tr, -1) /\ UNCHANGED locals
  /\ UNCHANGED <<var_soft_bounce, args, dsn>>

\* The answer of trace_append(), and what the condition does next.
OneTraceReply(p) ==
  /\ pc[p] = "one_trace"
  /\ LET r == Answer(p)
         tr == Append(trace[p], Resp(r))
         next == OneAfterTrace(r, flags[p])
     IN CASE next = "success" -> OneSucceed(p, tr)
          [] next = "defer" -> OneFallback(p, tr)
          [] next = "fail" -> Finish(p, tr, -1) /\ UNCHANGED locals
  /\ UNCHANGED <<var_soft_bounce, args, dsn>>

\* status = defer_append(...); return (status);
OneDeferReply(p) ==
  /\ pc[p] = "one_defer"
  /\ Finish(p, Append(trace[p], Resp(Answer(p))), Answer(p))
  /\ UNCHANGED <<var_soft_bounce, args, dsn, locals>>

(* ----------------------------- bounce_flush ---------------------------- *)

\* if (var_soft_bounce) return (-1); otherwise the flush request.
BounceFlush(p) ==
  /\ pc[p] = "flush"
  /\ IF FlushRoute(var_soft_bounce) = "skip"
     THEN Finish(p, trace[p], -1)
     ELSE Ask(p, trace[p],
              Req("mail_command_client", "bounce", "BOUNCE_CMD_FLUSH", "", <<>>, ""),
              "flush_reply")
  /\ UNCHANGED <<var_soft_bounce, args, dsn, locals>>

\* The answer to the flush request.
BounceFlushReply(p) ==
  /\ pc[p] = "flush_reply"
  /\ LET r == Answer(p)
     IN Finish(p, Append(trace[p], Resp(r)) \o FlushMsgs(r, flags[p]),
               FlushStatus(r))
  /\ UNCHANGED <<var_soft_bounce, args, dsn, locals>>

(* --------------------------- specifications ---------------------------- *)

AllIdle ==
  /\ pc = [p \in Procs |-> Idle.pc]
  /\ op = [p \in Procs |-> Idle.op]
  /\ flags = [p \in Procs |-> Idle.flags]
  /\ recipient = [p \in Procs |-> Idle.recipient]
  /\ dsn = [p \in Procs |-> Idle.dsn]
  /\ my_dsn = [p \in Procs |-> Idle.my_dsn]
  /\ action = [p \in Procs |-> Idle.action]
  /\ log_status = [p \in Procs |-> Idle.log_status]
  /\ status = [p \in Procs |-> Idle.status]
  /\ resp = [p \in Procs |-> Idle.resp]
  /\ trace = [p \in Procs |-> Idle.trace]

\* The configuration is read before any call; no caller has called yet.
Init ==
  /\ var_soft_bounce \in BOOLEAN
  /\ AllIdle

\* One caller, one call after the other.
Next ==
  \E p \in {"c1"} :
    \/ CallAppend(p)
    \/ CallOne(p)
    \/ CallFlush(p)
    \/ Return(p)
    \/ VbounceAppend(p)
    \/ AppendVerifyReply(p)
    \/ AppendExpandReply(p)
    \/ AppendPrimaryReply(p)
    \/ AppendTraceReply(p)
    \/ AppendDeferReply(p)
    \/ VbounceOne(p)
    \/ OneVerifyReply(p)
    \/ OneExpandReply(p)
    \/ OnePrimaryReply(p)
    \/ OneTraceReply(p)
    \/ OneDeferReply(p)
    \/ BounceFlush(p)
    \/ BounceFlushReply(p)

Spec == Init /\ [][Next]_vars

(* --------- one-shot and append side by side, on the same input --------- *)

\* Caller c1 is in vbounce_one, caller c2 in vbounce_append, both with the
\* same arguments and the same answers from the services.
InitPair ==
  /\ var_soft_bounce \in BOOLEAN
  /\ \E f \in FlagSets, rcpt \in Recipients, d \in DsnInputs, r \in Oracles :
       /\ pc = [p \in Procs |->
                  IF p = "c1" THEN "one" ELSE IF p = "c2" THEN "append" ELSE Idle.pc]
       /\ op = [p \in Procs |->
                  IF p = "c1" THEN "one" ELSE IF p = "c2" THEN "append" ELSE Idle.op]
       /\ flags = [p \in Procs |-> f]
       /\ recipient = [p \in Procs |-> rcpt]
       /\ dsn = [p \in Procs |-> d]
       /\ resp = [p \in Procs |-> r]
  /\ my_dsn = [p \in Procs |-> Idle.my_dsn]
  /\ action = [p \in Procs |-> Idle.action]
  /\ log_status = [p \in Procs |-> Idle.log_status]
  /\ status = [p \in Procs |-> Idle.status]
  /\ trace = [p \in Procs |-> Idle.trace]

NextPair ==
  \E p \in {"c1", "c2"} :
    \/ VbounceAppend(p)
    \/ AppendVerifyReply(p)
    \/ AppendExpandReply(p)
    \/ AppendPrimaryReply(p)
    \/ AppendTraceReply(p)
    \/ AppendDeferReply(p)
    \/ VbounceOne(p)
    \/ OneVerifyReply(p)
    \/ OneExpandReply(p)
    \/ OnePrimaryReply(p)
    \/ OneTraceReply(p)
    \/ OneDeferReply(p)

SpecPair == InitPair /\ [][NextPair]_vars

(* ------------------------- reading a call's trace ---------------------- *)

Done(p) == pc[p] = "done"

\* p is in an append or one-shot call.
Recording(p) == op[p] \in {"append", "one"}

\* p is in an append or one-shot call with VERIFY and EXPAND unset.
NormalPath(p) ==
  /\ Recording(p)
  /\ DEL_REQ_FLAG_VERIFY \notin flags[p]
  /\ DEL_REQ_FLAG_EXPAND \notin flags[p]

\* The interfaces of the peer services.
IsVerifyReq(e) == e.call = "vverify_append"
IsTraceReq(e) == e.call \in {"vtrace_append", "trace_append"}
IsTraceMirror(e) == e.call = "trace_append"
IsLogAppend(e) == e.call = "mail_command_client" /\ e.cmd = "BOUNCE_CMD_APPEND"
IsOneShot(e) == e.call = "mail_command_client" /\ e.cmd = "BOUNCE_CMD_ONE"
IsFlush(e) == e.call = "mail_command_client" /\ e.cmd = "BOUNCE_CMD_FLUSH"
IsPrimary(e) == IsLogAppend(e) \/ IsOneShot(e)
IsDeferAppend(e) == e.call = "defer_append"

R(p) == Reqs(trace[p])
A(p) == Resps(trace[p])
L(p) == Logs(trace[p])

\* Requests and answers of the call, in the order they happened.
Exchange(p) == SelectSeq(trace[p], LAMBDA e : e.kind \in {"req", "resp"})

HasReq(p, Is(_)) == \E i \in 1 .. Len(R(p)) : Is(R(p)[i])

\* The primary action of the call has reported failure / success.
PrimaryFailed(p) ==
  Len(R(p)) >= 1 /\ IsPrimary(R(p)[1]) /\ Len(A(p)) >= 1 /\ A(p)[1].st # 0

PrimaryOk(p) ==
  Len(R(p)) >= 1 /\ IsPrimary(R(p)[1]) /\ Len(A(p)) >= 1 /\ A(p)[1].st = 0

\* The RECORD trace mirror has reported failure / success.
MirrorFailed(p) ==
  Len(R(p)) >= 2 /\ IsTraceMirror(R(p)[2]) /\ Len(A(p)) >= 2 /\ A(p)[2].st # 0

MirrorOk(p) ==
  Len(R(p)) >= 2 /\ IsTraceMirror(R(p)[2]) /\ Len(A(p)) >= 2 /\ A(p)[2].st = 0

\* The dsn argument the caller passed: the sanity check quotes a rejected
\* code in its warning, and leaves an accepted one in dsn.
GivenDsn(p) ==
  LET w == OfKind(trace[p], "msg")
  IN IF Len(w) >= 1 /\ w[1].call = "msg_warn" THEN w[1].dsn ELSE dsn[p]

(* ------------------------------- claims -------------------------------- *)

\* C1: an append or one-shot call with VERIFY set sends one request, to the
\* verification store, and nothing else: no request to the bounce-log,
\* defer, one-shot or trace service, no adhoc log line; it returns the
\* status the verification store reported.
C1_VerifyOnly ==
  \A p \in Procs :
    (Recording(p) /\ DEL_REQ_FLAG_VERIFY \in flags[p]) =>
      /\ Len(R(p)) <= 1
      /\ \A i \in 1 .. Len(R(p)) : IsVerifyReq(R(p)[i])
      /\ L(p) = <<>>
      /\ Done(p) =>
           /\ Len(R(p)) = 1
           /\ Len(A(p)) = 1
           /\ status[p] = A(p)[1].st

C1_Witness ==
  \E p \in Procs :
    /\ Done(p)
    /\ op[p] = "one"
    /\ flags[p] = AllFlags
    /\ var_soft_bounce
    /\ HasReq(p, IsVerifyReq)
    /\ status[p] = 1

\* C2: an append or one-shot call with EXPAND set and VERIFY unset sends one
\* request, to the trace store with the tag "undeliverable", and no request
\* to the bounce-log, defer or one-shot service; it returns the status the
\* trace store reported.
C2_ExpandOnly ==
  \A p \in Procs :
    (/\ Recording(p)
     /\ DEL_REQ_FLAG_EXPAND \in flags[p]
     /\ DEL_REQ_FLAG_VERIFY \notin flags[p]) =>
      /\ Len(R(p)) <= 1
      /\ \A i \in 1 .. Len(R(p)) :
           R(p)[i].call = "vtrace_append" /\ R(p)[i].text = "undeliverable"
      /\ Done(p) =>
           /\ Len(R(p)) = 1
           /\ Len(A(p)) = 1
           /\ status[p] = A(p)[1].st

C2_Witness ==
  \E p \in Procs :
    /\ Done(p)
    /\ op[p] = "append"
    /\ flags[p] = {DEL_REQ_FLAG_EXPAND, DEL_REQ_FLAG_RECORD, BOUNCE_FLAG_CLEAN}
    /\ var_soft_bounce
    /\ HasReq(p, IsTraceReq)
    /\ status[p] = 1

\* C3: in an append or one-shot call with no flag set whose primary action
\* reports failure, defer_append is called once, after the answer of the
\* primary action, with a DSN of class 4, and the call returns the status
\* defer_append reported.
C3_FallbackOnFailure ==
  \A p \in Procs :
    (Recording(p) /\ flags[p] = {} /\ PrimaryFailed(p)) =>
      /\ Len(R(p)) = 2
      /\ IsDeferAppend(R(p)[2])
      /\ R(p)[2].dsn[1] = "4"
      /\ Exchange(p)[2].kind = "resp"
      /\ Exchange(p)[3] = R(p)[2]
      /\ Done(p) => (Len(A(p)) = 2 /\ status[p] = A(p)[2].st)

C3_Witness ==
  \E p \in Procs :
    /\ Done(p)
    /\ Recording(p)
    /\ flags[p] = {}
    /\ ~var_soft_bounce
    /\ PrimaryFailed(p)
    /\ HasReq(p, IsDeferAppend)
    /\ status[p] = 0

\* C4: an append or one-shot call with CLEAN set and VERIFY, EXPAND unset
\* never calls defer_append; when the primary action or the trace mirror
\* reports failure the call returns failure, that answer is the last thing
\* the call did, and there is no adhoc log line.
C4_CleanNoFallback ==
  \A p \in Procs :
    (NormalPath(p) /\ BOUNCE_FLAG_CLEAN \in flags[p]) =>
      /\ ~HasReq(p, IsDeferAppend)
      /\ (PrimaryFailed(p) \/ MirrorFailed(p)) =>
           /\ Done(p)
           /\ status[p] # 0
           /\ trace[p][Len(trace[p])].kind = "resp"
           /\ Len(R(p)) = (IF PrimaryFailed(p) THEN 1 ELSE 2)
           /\ L(p) = <<>>

C4_Witness ==
  \E p \in Procs :
    /\ Done(p)
    /\ NormalPath(p)
    /\ flags[p] = {DEL_REQ_FLAG_RECORD, BOUNCE_FLAG_CLEAN}
    /\ MirrorFailed(p)

\* C5 as stated: defer_append is called only when the primary action itself
\* reported failure and CLEAN is unset, and no call issues both the RECORD
\* trace mirror and defer_append.
C5_AsStated ==
  \A p \in Procs :
    Recording(p) =>
      /\ HasReq(p, IsDeferAppend) =>
           (PrimaryFailed(p) /\ BOUNCE_FLAG_CLEAN \notin flags[p])
      /\ ~(HasReq(p, IsTraceMirror) /\ HasReq(p, IsDeferAppend))

\* C5 amended: defer_append is called only when CLEAN is unset and the
\* primary action reported failure, or the primary action reported success
\* and the RECORD trace mirror reported failure; a call issues both the
\* trace mirror and defer_append exactly when the mirror reported failure
\* and CLEAN is unset.
C5_FallbackCause ==
  \A p \in Procs :
    Recording(p) =>
      /\ HasReq(p, IsDeferAppend) =>
           /\ BOUNCE_FLAG_CLEAN \notin flags[p]
           /\ \/ PrimaryFailed(p) /\ Len(R(p)) = 2
              \/ PrimaryOk(p) /\ MirrorFailed(p) /\ Len(R(p)) = 3
      /\ (HasReq(p, IsTraceMirror) /\ HasReq(p, IsDeferAppend)) <=>
           (MirrorFailed(p) /\ BOUNCE_FLAG_CLEAN \notin flags[p])
      /\ (PrimaryFailed(p) /\ BOUNCE_FLAG_CLEAN \notin flags[p]) =>
           HasReq(p, IsDeferAppend)

C5_Witness ==
  \E p \in Procs :
    /\ Done(p)
    /\ op[p] = "append"
    /\ ~var_soft_bounce
    /\ PrimaryOk(p)
    /\ MirrorFailed(p)
    /\ HasReq(p, IsDeferAppend)

\* C6: with soft_bounce off and VERIFY, EXPAND unset, a call whose primary
\* action succeeds and whose trace mirror (if RECORD is set) succeeds
\* returns 0, writes exactly one adhoc log line, with status "bounced" and
\* the class-5 code of the sanity check (the given code when it is a valid
\* class-5 code, else 5.0.0), and sends nothing to the defer store.
C6_Bounced ==
  \A p \in Procs :
    (/\ NormalPath(p)
     /\ ~var_soft_bounce
     /\ PrimaryOk(p)
     /\ DEL_REQ_FLAG_RECORD \notin flags[p] \/ MirrorOk(p)) =>
      /\ Done(p)
      /\ status[p] = 0
      /\ Len(L(p)) = 1
      /\ L(p)[1].text = "bounced"
      /\ L(p)[1].dsn[1] = "5"
      /\ L(p)[1].dsn =
           (IF FirstChar(GivenDsn(p)) = "5" /\ DsnValid(GivenDsn(p))
            THEN GivenDsn(p) ELSE <<"5", ".", "0", ".", "0">>)
      /\ ~HasReq(p, IsDeferAppend)
      /\ \A i \in 1 .. Len(R(p)) : R(p)[i].service # "defer"
      /\ trace[p][Len(trace[p])].kind = "log"

C6_Witness ==
  \E p \in Procs :
    /\ Done(p)
    /\ op[p] = "append"
    /\ ~var_soft_bounce
    /\ DEL_REQ_FLAG_RECORD \in flags[p]
    /\ MirrorOk(p)
    /\ GivenDsn(p) = Dsn511
    /\ L(p) # <<>>
    /\ L(p)[1].dsn = Dsn511

\* C7 as stated: under soft_bounce, with VERIFY and EXPAND unset, a call
\* whose primary append request succeeds returns failure and writes an adhoc
\* log line with status "SOFTBOUNCE", whatever RECORD and the trace mirror.
C7_AsStated ==
  \A p \in Procs :
    (NormalPath(p) /\ var_soft_bounce /\ PrimaryOk(p) /\ Done(p)) =>
      /\ status[p] # 0
      /\ \E i \in 1 .. Len(L(p)) : L(p)[i].text = "SOFTBOUNCE"

\* C7 amended: under soft_bounce, with VERIFY and EXPAND unset, a call whose
\* primary append request succeeds and whose trace mirror (if RECORD is set)
\* succeeds returns failure and writes one adhoc log line with status
\* "SOFTBOUNCE"; when RECORD is set and the mirror fails, no adhoc log line
\* is written and the call returns the status of defer_append.
C7_SoftBounced ==
  \A p \in Procs :
    (NormalPath(p) /\ var_soft_bounce /\ PrimaryOk(p) /\ Done(p)) =>
      /\ (DEL_REQ_FLAG_RECORD \notin flags[p] \/ MirrorOk(p)) =>
           /\ status[p] = -1
           /\ Len(L(p)) = 1
           /\ L(p)[1].text = "SOFTBOUNCE"
      /\ (DEL_REQ_FLAG_RECORD \in flags[p] /\ ~MirrorOk(p)) =>
           /\ MirrorFailed(p)
           /\ L(p) = <<>>
           /\ Len(R(p)) = 3
           /\ IsDeferAppend(R(p)[3])
           /\ status[p] = A(p)[3].st

C7_Witness ==
  \E p \in Procs :
    /\ Done(p)
    /\ op[p] = "one"
    /\ var_soft_bounce
    /\ NormalPath(p)
    /\ MirrorOk(p)
    /\ status[p] = -1
    /\ L(p) # <<>>

\* C8 as stated: under soft_bounce no append, one-shot or flush call with
\* VERIFY and EXPAND unset returns success, whatever the services answer,
\* the answer of defer_append included.
C8_AsStated ==
  \A p \in Procs :
    (/\ var_soft_bounce
     /\ Done(p)
     /\ DEL_REQ_FLAG_VERIFY \notin flags[p]
     /\ DEL_REQ_FLAG_EXPAND \notin flags[p]) => status[p] # 0

\* C8 amended: under soft_bounce an append, one-shot or flush call with
\* VERIFY and EXPAND unset that does not end in the defer fallback returns
\* failure; a call that ends in the defer fallback returns the status
\* defer_append reported, success included.
C8_SoftNeverFinal ==
  \A p \in Procs :
    (/\ var_soft_bounce
     /\ Done(p)
     /\ DEL_REQ_FLAG_VERIFY \notin flags[p]
     /\ DEL_REQ_FLAG_EXPAND \notin flags[p]) =>
      IF HasReq(p, IsDeferAppend)
      THEN /\ IsDeferAppend(R(p)[Len(R(p))])
           /\ status[p] = A(p)[Len(A(p))].st
      ELSE status[p] = -1

C8_Witness ==
  \E p \in Procs :
    /\ var_soft_bounce
    /\ Done(p)
    /\ op[p] = "append"
    /\ flags[p] = {}
    /\ HasReq(p, IsDeferAppend)
    /\ status[p] = 0

\* C9: under soft_bounce an append call with CLEAN set and VERIFY, EXPAND
\* unset sends no request to any service, writes no adhoc log line and
\* returns failure, every time it is made.
C9_SoftCleanNoop ==
  \A p \in Procs :
    (/\ var_soft_bounce
     /\ op[p] = "append"
     /\ BOUNCE_FLAG_CLEAN \in flags[p]
     /\ DEL_REQ_FLAG_VERIFY \notin flags[p]
     /\ DEL_REQ_FLAG_EXPAND \notin flags[p]) =>
      /\ R(p) = <<>>
      /\ L(p) = <<>>
      /\ pc[p] \in {"append", "done"}
      /\ Done(p) => status[p] # 0

C9_Witness ==
  \E p \in Procs :
    /\ var_soft_bounce
    /\ Done(p)
    /\ op[p] = "append"
    /\ flags[p] = {DEL_REQ_FLAG_RECORD, BOUNCE_FLAG_CLEAN}
    /\ status[p] = -1

\* C10: under soft_bounce a one-shot call never sends the one-shot request;
\* run next to an append call with the same flags, DSN and answers, it
\* issues the same requests, gets the same answers, writes the same adhoc
\* log lines and returns the same status; with CLEAN set (VERIFY, EXPAND
\* unset) it sends nothing and returns failure.
C10_OneIsAppend ==
  var_soft_bounce =>
    /\ ~HasReq("c1", IsOneShot)
    /\ (Done("c1") /\ Done("c2")) =>
         /\ R("c1") = R("c2")
         /\ A("c1") = A("c2")
         /\ L("c1") = L("c2")
         /\ status["c1"] = status["c2"]
    /\ (Done("c1") /\ NormalPath("c1") /\ BOUNCE_FLAG_CLEAN \in flags["c1"]) =>
         /\ R("c1") = <<>>
         /\ L("c1") = <<>>
         /\ status["c1"] # 0

C10_Witness ==
  /\ var_soft_bounce
  /\ Done("c1")
  /\ Done("c2")
  /\ op["c1"] = "one"
  /\ op["c2"] = "append"
  /\ flags["c1"] = {DEL_REQ_FLAG_RECORD}
  /\ Len(R("c1")) = 3
  /\ GivenDsn("c1") = Dsn999

\* C11: under soft_bounce a flush call sends no request and returns failure;
\* with soft_bounce off it sends exactly one request, the flush request to
\* the bounce service, returns success exactly when that request reports
\* success, and never calls the defer, trace or verification store.
C11_Flush ==
  \A p \in Procs :
    op[p] = "flush" =>
      /\ \A i \in 1 .. Len(R(p)) :
           /\ IsFlush(R(p)[i])
           /\ R(p)[i].service = "bounce"
      /\ L(p) = <<>>
      /\ var_soft_bounce => (R(p) = <<>> /\ (Done(p) => status[p] # 0))
      /\ ~var_soft_bounce =>
           /\ Len(R(p)) <= 1
           /\ Done(p) =>
                /\ Len(R(p)) = 1
                /\ Len(A(p)) = 1
                /\ status[p] = 0 <=> A(p)[1].st = 0

C11_Witness ==
  \E p \in Procs :
    /\ op[p] = "flush"
    /\ Done(p)
    /\ ~var_soft_bounce
    /\ Len(R(p)) = 1
    /\ status[p] = 0

\* A request or adhoc log line: the events that carry a DSN to a store.
Carriers(p) == SelectSeq(trace[p], LAMBDA e : e.kind \in {"req", "log"})

\* The code without its class digit.
Tail1(d) == SubSeq(d, 2, Len(d))

\* C12: in an append or one-shot call whose given DSN is malformed or not of
\* class 5, every DSN the call sends to a store or writes to the adhoc log
\* is 5.0.0 or 4.0.0, and the call goes on (it issues its request unless
\* the soft-bounce short cut applies); a valid class-5 DSN is passed on
\* with its subject and detail unchanged.
C12_Sanitized ==
  \A p \in Procs :
    Recording(p) =>
      /\ \A i \in 1 .. Len(Carriers(p)) :
           LET d == Carriers(p)[i].dsn
           IN IF FirstChar(GivenDsn(p)) # "5" \/ ~DsnValid(GivenDsn(p))
              THEN d \in {<<"5", ".", "0", ".", "0">>, <<"4", ".", "0", ".", "0">>}
              ELSE /\ d[1] \in {"5", "4"}
                   /\ Tail1(d) = Tail1(GivenDsn(p))
      /\ (Done(p) /\ ~(NormalPath(p) /\ var_soft_bounce
                        /\ BOUNCE_FLAG_CLEAN \in flags[p])) =>
           Len(R(p)) >= 1

C12_Witness ==
  \E p \in Procs :
    /\ Done(p)
    /\ op[p] = "one"
    /\ GivenDsn(p) = Dsn5x1
    /\ Len(R(p)) = 3
    /\ R(p)[1].dsn = <<"5", ".", "0", ".", "0">>
    /\ R(p)[3].dsn = <<"4", ".", "0", ".", "0">>

\* The call has logged that delivery is deferred: an append or one-shot call
\* by calling defer_append, a flush call by its msg_info line.
LoggedDeferred(p) ==
  IF op[p] = "flush"
  THEN \E i \in 1 .. Len(trace[p]) :
         /\ trace[p][i].kind = "msg"
         /\ trace[p][i].call = "msg_info"
         /\ trace[p][i].text = "status=deferred (bounce failed)"
  ELSE HasReq(p, IsDeferAppend)

\* C13 as stated: whenever an append, one-shot or flush call returns a
\* non-zero status and CLEAN is unset, the call has logged that delivery is
\* deferred, with soft_bounce on or off.
C13_AsStated ==
  \A p \in Procs :
    (Done(p) /\ status[p] # 0 /\ BOUNCE_FLAG_CLEAN \notin flags[p]) =>
      LoggedDeferred(p)

\* The part of C13 the code keeps: soft_bounce off, and VERIFY, EXPAND and
\* CLEAN unset.
C13_HardOnly ==
  \A p \in Procs :
    (/\ ~var_soft_bounce
     /\ Done(p)
     /\ status[p] # 0
     /\ flags[p] \subseteq {DEL_REQ_FLAG_RECORD}) => LoggedDeferred(p)

\* The number of events of kind k among the first n events of the call.
CountBefore(p, k, n) == Len(OfKind(SubSeq(trace[p], 1, n), k))

\* C14: in an append or one-shot call a trace-mirror or defer_append request
\* is issued only after the primary request, and after every earlier
\* request of the call has been answered; the mirror is requested only if
\* RECORD is set and the primary request reported success.
C14_PrimaryFirst ==
  \A p \in Procs :
    Recording(p) =>
      \A i \in 1 .. Len(trace[p]) :
        LET e == trace[p][i]
        IN (e.kind = "req" /\ (IsTraceMirror(e) \/ IsDeferAppend(e))) =>
             /\ IsPrimary(R(p)[1])
             /\ CountBefore(p, "req", i - 1) >= 1
             /\ CountBefore(p, "resp", i - 1) = CountBefore(p, "req", i - 1)
             /\ IsTraceMirror(e) =>
                  /\ DEL_REQ_FLAG_RECORD \in flags[p]
                  /\ A(p)[1].st = 0
                  /\ CountBefore(p, "req", i - 1) = 1
             /\ IsDeferAppend(e) =>
                  \A j \in 1 .. Len(R(p)) :
                    IsTraceMirror(R(p)[j]) =>
                      (j <= CountBefore(p, "req", i - 1) /\ Len(A(p)) >= j)

C14_Witness ==
  \E p \in Procs :
    /\ Done(p)
    /\ op[p] = "append"
    /\ var_soft_bounce
    /\ Len(R(p)) = 3
    /\ IsTraceMirror(R(p)[2])
    /\ IsDeferAppend(R(p)[3])

(* --------------------------- termination ------------------------------- *)

\* A step of the code of a call in progress, or the answer of a service to
\* the request the call waits for.
Run(p) ==
  \/ VbounceAppend(p)
  \/ AppendVerifyReply(p)
  \/ AppendExpandReply(p)
  \/ AppendPrimaryReply(p)
  \/ AppendTraceReply(p)
  \/ AppendDeferReply(p)
  \/ VbounceOne(p)
  \/ OneVerifyReply(p)
  \/ OneExpandReply(p)
  \/ OnePrimaryReply(p)
  \/ OneTraceReply(p)
  \/ OneDeferReply(p)
  \/ BounceFlush(p)
  \/ BounceFlushReply(p)

\* Caller c1 has just called one of the three functions; termination does
\* not depend on the recipient, and one accepted and one rejected DSN are
\* enough for it.
InitLive ==
  /\ var_soft_bounce \in BOOLEAN
  /\ \E fn \in {"append", "one", "flush"}, f \in FlagSets,
        d \in {Dsn511, Dsn999}, r \in Oracles :
       /\ pc = [p \in Procs |-> IF p = "c1" THEN fn ELSE Idle.pc]
       /\ op = [p \in Procs |-> IF p = "c1" THEN fn ELSE Idle.op]
       /\ flags = [p \in Procs |-> IF p = "c1" THEN f ELSE Idle.flags]
       /\ recipient =
            [p \in Procs |->
               IF p = "c1" /\ fn # "flush" THEN "alice" ELSE Idle.recipient]
       /\ dsn = [p \in Procs |-> IF p = "c1" /\ fn # "flush" THEN d ELSE Idle.dsn]
       /\ resp = [p \in Procs |-> IF p = "c1" THEN r ELSE Idle.resp]
  /\ my_dsn = [p \in Procs |-> Idle.my_dsn]
  /\ action = [p \in Procs |-> Idle.action]
  /\ log_status = [p \in Procs |-> Idle.log_status]
  /\ status = [p \in Procs |-> Idle.status]
  /\ trace = [p \in Procs |-> Idle.trace]

NextLive == Run("c1")

\* The code of a call keeps running, and every request is answered.
SpecLive == InitLive /\ [][NextLive]_vars /\ WF_vars(Run("c1"))

InCall(p) == pc[p] \notin {"idle", "done"}

\* C15: every append, one-shot and flush call returns, with a status value,
\* provided each of its requests is answered, and issues at most three
\* requests.
C15_Terminates ==
  /\ [](\A p \in Procs :
          /\ Len(R(p)) <= 3
          /\ Done(p) => status[p] \in Status)
  /\ \A p \in Procs : InCall(p) ~> Done(p)

C15_Witness ==
  \E p \in Procs :
    /\ Done(p)
    /\ op[p] = "one"
    /\ Len(R(p)) = 3
    /\ Len(A(p)) = 3
    /\ status[p] = 1

\* C17: an append or one-shot call emits at most one adhoc log line, and
\* only as its last effect, after the primary action and, when RECORD is
\* set, the trace mirror have reported success; the status returned with it
\* is the one of the success branch. A call that invokes defer_append, that
\* fails with CLEAN set, that is short-circuited, or that takes the
\* verification or expansion path emits none.
C17_LogOnce ==
  \A p \in Procs :
    /\ Len(L(p)) <= 1
    /\ L(p) # <<>> =>
         /\ NormalPath(p)
         /\ PrimaryOk(p)
         /\ DEL_REQ_FLAG_RECORD \in flags[p] => MirrorOk(p)
         /\ Len(R(p)) = Len(A(p))
         /\ trace[p][Len(trace[p])].kind = "log"
         /\ Done(p)
         /\ status[p] = AppendSuccessStatus(var_soft_bounce)
    /\ ( \/ HasReq(p, IsDeferAppend)
         \/ Done(p) /\ status[p] # 0 /\ BOUNCE_FLAG_CLEAN \in flags[p]
         \/ Done(p) /\ R(p) = <<>>
         \/ ~ NormalPath(p) ) => L(p) = <<>>

C17_Witness ==
  \E p \in Procs :
    /\ Done(p)
    /\ op[p] = "append"
    /\ flags[p] = {DEL_REQ_FLAG_RECORD}
    /\ MirrorOk(p)
    /\ Len(L(p)) = 1
    /\ status[p] = 0

\* The class digit of the DSN an event carries.
ClassOf(e) == FirstChar(e.dsn)

\* C18: the class digit of a request follows from its role. Requests to the
\* verification store and to the trace store on the expansion path carry
\* class 5, also under soft_bounce; the primary request, the trace mirror
\* and the adhoc log line carry class 5 with soft_bounce off and class 4 with
\* it on; a defer_append request carries class 4; subject and detail are
\* those of the code the sanity check left.
C18_ClassByRole ==
  \A p \in Procs :
    Recording(p) =>
      \A i \in 1 .. Len(Carriers(p)) :
        LET e == Carriers(p)[i]
        IN /\ (IsVerifyReq(e) \/ e.call = "vtrace_append") => ClassOf(e) = "5"
           /\ (IsPrimary(e) \/ IsTraceMirror(e) \/ e.kind = "log") =>
                ClassOf(e) = IF var_soft_bounce THEN "4" ELSE "5"
           /\ IsDeferAppend(e) => ClassOf(e) = "4"
           /\ Tail1(e.dsn) = Tail1(SanitizeDsn(GivenDsn(p)))

C18_Witness ==
  \E p \in Procs :
    /\ Done(p)
    /\ op[p] = "append"
    /\ var_soft_bounce
    /\ GivenDsn(p) = Dsn511
    /\ Len(R(p)) = 3
    /\ IsLogAppend(R(p)[1]) /\ R(p)[1].dsn = <<"4", ".", "1", ".", "1">>
    /\ IsTraceMirror(R(p)[2]) /\ R(p)[2].dsn = <<"4", ".", "1", ".", "1">>
    /\ IsDeferAppend(R(p)[3]) /\ R(p)[3].dsn = <<"4", ".", "1", ".", "1">>

\* The service a request is addressed to: mail_command_client names it;
\* the other interfaces belong to one service each.
ServiceOf(e) ==
  CASE e.call = "mail_command_client" -> e.service
    [] e.call = "vverify_append" -> "verify"
    [] e.call \in {"vtrace_append", "trace_append"} -> "trace"
    [] e.call = "defer_append" -> "defer"

Services == {"verify", "trace", "bounce", "defer"}

\* The requests of the call addressed to service s.
ReqsTo(p, s) == SelectSeq(R(p), LAMBDA e : ServiceOf(e) = s)

\* The number of requests of the call made through interface c.
CallsOf(p, c) == Len(SelectSeq(R(p), LAMBDA e : e.call = c))

\* C19 as stated: within one call each service receives at most one
\* request, in both soft_bounce modes.
C19_AsStated ==
  \A p \in Procs : \A s \in Services : Len(ReqsTo(p, s)) <= 1

\* C19: within one call every interface is called at most once, and the
\* verification, trace and bounce services receive at most one request. The
\* defer service receives at most one request with soft_bounce off; with it
\* on it receives at most two: the primary append, and then, when that
\* append or the trace mirror has reported failure, the defer_append.
C19_NoRetry ==
  \A p \in Procs :
    /\ \A c \in {"vverify_append", "vtrace_append", "trace_append",
                 "mail_command_client", "defer_append"} : CallsOf(p, c) <= 1
    /\ \A s \in {"verify", "trace", "bounce"} : Len(ReqsTo(p, s)) <= 1
    /\ ~var_soft_bounce => Len(ReqsTo(p, "defer")) <= 1
    /\ Len(ReqsTo(p, "defer")) <= 2
    /\ Len(ReqsTo(p, "defer")) = 2 =>
         /\ IsLogAppend(ReqsTo(p, "defer")[1])
         /\ IsDeferAppend(ReqsTo(p, "defer")[2])
         /\ PrimaryFailed(p) \/ MirrorFailed(p)

C19_Witness ==
  \E p \in Procs :
    /\ Done(p)
    /\ var_soft_bounce
    /\ op[p] = "append"
    /\ flags[p] = {}
    /\ PrimaryFailed(p)
    /\ Len(ReqsTo(p, "defer")) = 2
    /\ status[p] = -1

\* C20: while soft_bounce is on no call sends a request to the bounce
\* service: the record of the append path goes to the defer service with
\* action "delayed", a one-shot call makes no BOUNCE_CMD_ONE request, and a
\* flush call returns failure without a request.
C20_NoBounceWhenSoft ==
  \A p \in Procs :
    var_soft_bounce =>
      /\ ReqsTo(p, "bounce") = <<>>
      /\ \A i \in 1 .. Len(R(p)) :
           /\ ~IsOneShot(R(p)[i])
           /\ ~IsFlush(R(p)[i])
           /\ IsLogAppend(R(p)[i]) =>
                R(p)[i].service = "defer" /\ R(p)[i].text = "delayed"
      /\ (Done(p) /\ NormalPath(p) /\ BOUNCE_FLAG_CLEAN \notin flags[p]) =>
           Len(R(p)) >= 1 /\ IsLogAppend(R(p)[1])
      /\ (Done(p) /\ op[p] = "flush") => R(p) = <<>> /\ status[p] = -1

C20_Witness ==
  \E p \in Procs :
    /\ Done(p)
    /\ var_soft_bounce
    /\ op[p] = "one"
    /\ flags[p] = {DEL_REQ_FLAG_RECORD}
    /\ Len(R(p)) = 2
    /\ R(p)[1].service = "defer"
    /\ R(p)[1].text = "delayed"
    /\ status[p] = -1

(* ---------------- two calls for different recipients ------------------- *)

\* The recipient each caller reports.
Owner(p) == IF p = "c2" THEN "bob" ELSE "alice"

\* Answers of services that report success or failure.
ConcOracles == [1 .. MaxReqs -> {0, -1}]

\* Callers c1 and c2 call vbounce_append or vbounce_one for two recipients
\* of one message; caller c0 makes the call of c1, with the same answers.
InitConc ==
  /\ var_soft_bounce \in BOOLEAN
  /\ \E fn \in {"append", "one"}, f \in FlagSets, d \in {Dsn511, Dsn999},
        r \in ConcOracles,
        fn2 \in {"append", "one"}, f2 \in {{}, {DEL_REQ_FLAG_RECORD}},
        r2 \in {[k \in 1 .. MaxReqs |-> 0], [k \in 1 .. MaxReqs |-> -1]} :
       /\ pc = [p \in Procs |-> IF p = "c2" THEN fn2 ELSE fn]
       /\ op = [p \in Procs |-> IF p = "c2" THEN fn2 ELSE fn]
       /\ flags = [p \in Procs |-> IF p = "c2" THEN f2 ELSE f]
       /\ dsn = [p \in Procs |-> IF p = "c2" THEN Dsn420 ELSE d]
       /\ resp = [p \in Procs |-> IF p = "c2" THEN r2 ELSE r]
  /\ recipient = [p \in Procs |-> Owner(p)]
  /\ my_dsn = [p \in Procs |-> Idle.my_dsn]
  /\ action = [p \in Procs |-> Idle.action]
  /\ log_status = [p \in Procs |-> Idle.log_status]
  /\ status = [p \in Procs |-> Idle.status]
  /\ trace = [p \in Procs |-> Idle.trace]

\* The steps of an append or one-shot call of p.
Dispatch(p) ==
  \/ VbounceAppend(p)
  \/ AppendVerifyReply(p)
  \/ AppendExpandReply(p)
  \/ AppendPrimaryReply(p)
  \/ AppendTraceReply(p)
  \/ AppendDeferReply(p)
  \/ VbounceOne(p)
  \/ OneVerifyReply(p)
  \/ OneExpandReply(p)
  \/ OnePrimaryReply(p)
  \/ OneTraceReply(p)
  \/ OneDeferReply(p)

\* c0 runs alone, to its return; then c1 and c2 run, their steps in any
\* order.
NextConc ==
  \/ Dispatch("c0")
  \/ Done("c0") /\ \E p \in {"c1", "c2"} : Dispatch(p)

SpecConc == InitConc /\ [][NextConc]_vars

\* C16: of two calls for different recipients running at the same time,
\* every request and adhoc log line of a call carries the recipient of that
\* call; the requests, answers and log lines of a call are, at every point,
\* those the same call makes when it runs alone, and so is the status it
\* returns; no step changes var_soft_bounce.
C16_Isolated ==
  /\ [](/\ \A p \in Procs : \A i \in 1 .. Len(Carriers(p)) :
             Carriers(p)[i].recipient = Owner(p)
        /\ Done("c0") =>
             /\ Len(trace["c1"]) <= Len(trace["c0"])
             /\ trace["c1"] = SubSeq(trace["c0"], 1, Len(trace["c1"]))
             /\ Done("c1") =>
                  /\ R("c1") = R("c0")
                  /\ A("c1") = A("c0")
                  /\ status["c1"] = status["c0"])
  /\ [][var_soft_bounce' = var_soft_bounce]_vars

C16_Witness ==
  /\ Done("c0")
  /\ Len(R("c0")) = 3
  /\ pc["c1"] = "append_trace"
  /\ pc["c2"] = "one_primary"
  /\ R("c1")[1].recipient = "alice"
  /\ R("c2")[1].recipient = "bob"

====
